---------------------------- MODULE Spec2Model ----------------------------
(***************************************************************************)
(* Confusion-matrix based Dice coefficient of the segmentation-metric      *)
(* notebook: ConfusionMatrix, ConfusionMatrixBasedMetric, DiceCoefficient. *)
(*                                                                         *)
(* One metric object is modelled.  Its ConfusionMatrix owns the int32      *)
(* array `conf`.  numpy arrays are functions over 0..n-1, a matrix is a    *)
(* function of rows.  Floating point values are modelled as exact          *)
(* rationals <<numerator, denominator>> in lowest terms, <<0, 0>> being    *)
(* the not-a-number value.                                                 *)
(***************************************************************************)
EXTENDS Integers, Sequences, FiniteSets, TLC

VARIABLES
    conf,            \* ConfusionMatrix.conf: the int32 count matrix
    normalized,      \* ConfusionMatrix.normalized
    ignore_indices,  \* ConfusionMatrixBasedMetric.ignore_indices (None or a tuple)
    op,              \* the call that returned last
    raised,          \* the exception the last call ended with, or "none"
    pred,            \* arguments of the last ConfusionMatrix.add made directly
    target,          \*   on the matrix object
    ret,             \* array returned by the last ConfusionMatrix.value()
    mdice,           \* DiceCoefficient.value(): mean dice returned last
    dice,            \* DiceCoefficient.value(): per-class dice returned last
    seen,            \* history: pairs passed to add since creation / reset
    shard,           \* two further ConfusionMatrix instances fed the same data
    reduced_probs,   \* ConfusionMatrixBasedMetric.reduced_probs
    thread,          \* per thread: where it is inside ConfusionMatrix.add
    flops,           \* ModelProfiler.flops
    hooks,           \* ModelProfiler.hooks: None or the list of hook handles
    forward_hooks,   \* per module of the wrapped model: hooks registered on it
    args,            \* argument of the last forward / checkpoint look-up
    lightning_logs,  \* per version_N directory: listing of its checkpoints
    stdout           \* lines printed by the last call

vars == <<conf, normalized, ignore_indices, op, raised, pred, target, ret,
          mdice, dice, seen, shard, reduced_probs, thread, flops, hooks,
          forward_hooks, args, lightning_logs, stdout>>

----------------------------------------------------------------------------
(* Sizes *)

\* num_classes of the notebook's matrices and metrics
NumClasses == 3

\* longest flattened input of one add call
MaxLen == 1

\* most elements handed to one instance between two resets
MaxTotal == 3

Classes == 0 .. (NumClasses - 1)

\* labels the inputs are drawn from: one below and one or two above the classes
TargetLabels == (0 - 1) .. NumClasses
PredLabels == (0 - 1) .. (NumClasses + 1)

\* no array / no value: what a call that returns nothing leaves behind
NoResult == <<>>

----------------------------------------------------------------------------
(* Numbers *)

RECURSIVE GCD(_, _)
GCD(a, b) == IF b = 0 THEN a ELSE GCD(b, a % b)

Abs(x) == IF x < 0 THEN 0 - x ELSE x

NaN == <<0, 0>>

\* the rational n/d (d # 0) in lowest terms with a positive denominator
Rat(n, d) ==
    LET g == GCD(Abs(n), Abs(d))
        s == IF d < 0 THEN 0 - 1 ELSE 1
    IN  <<(s * n) \div g, (s * d) \div g>>

FromInt(n) == <<n, 1>>

IsNaN(x) == x = NaN

RAdd(x, y) == Rat(x[1] * y[2] + y[1] * x[2], x[2] * y[2])
RSub(x, y) == Rat(x[1] * y[2] - y[1] * x[2], x[2] * y[2])
RScale(k, x) == Rat(k * x[1], x[2])

\* largest value of an np.int32 cell
Int32Max == 2147483647

\* conf.astype(np.int32) of a histogram count: a whole number of elements of
\* one call, which the int32 holds exactly
AsInt32(h) == h

\* a + b in int32 arithmetic for an addend b >= 0: past Int32Max the sum
\* wraps around to a + b - 2^32 (written so that no step leaves the range)
AddInt32(a, b) ==
    IF b > 0 /\ a > Int32Max - b
    THEN (a - Int32Max - 1) + (b - Int32Max - 1)
    ELSE a + b

RECURSIVE SumInts(_, _)
\* sum over the index set S of the integer array f
SumInts(f, S) ==
    IF S = {} THEN 0
    ELSE LET i == CHOOSE j \in S : TRUE IN f[i] + SumInts(f, S \ {i})

RECURSIVE SumRats(_, _)
\* sum over the index set S of the rational array f
SumRats(f, S) ==
    IF S = {} THEN FromInt(0)
    ELSE LET i == CHOOSE j \in S : TRUE IN RAdd(f[i], SumRats(f, S \ {i}))

Zeros == [t \in Classes |-> [p \in Classes |-> 0]]

----------------------------------------------------------------------------
(* ConfusionMatrix *)

\* np.where((target >= 0) & (target < self.num_classes))
ValidIndices(tg) == {k \in DOMAIN tg : tg[k] >= 0 /\ tg[k] < NumClasses}

RECURSIVE Take(_, _)
\* a[idx] for a set of positions: the elements at those positions, in order
Take(a, idx) ==
    IF idx = {} THEN <<>>
    ELSE LET last == CHOOSE k \in idx : \A j \in idx : j <= k
         IN  Append(Take(a, idx \ {last}), a[last])

\* np.vstack((target.flatten(), pred.flatten())).T : one <<target, pred>> row
\* per element
VStackT(tg, pr) == [k \in DOMAIN tg |-> <<tg[k], pr[k]>>]

\* numpy's bin of value v for num_classes unit bins over (0, num_classes):
\* the last bin is closed on its right edge, values outside the range have no
\* bin (-1 here)
HistBin(v) ==
    IF v < 0 \/ v > NumClasses THEN 0 - 1
    ELSE IF v = NumClasses THEN NumClasses - 1
    ELSE v

\* np.histogramdd(sample, bins=(n, n), range=[(0, n), (0, n)]): a sample row
\* is counted when both coordinates have a bin
HistogramDD(sample) ==
    [t \in Classes |-> [p \in Classes |->
        Cardinality({k \in DOMAIN sample :
                        HistBin(sample[k][1]) = t /\ HistBin(sample[k][2]) = p})]]

\* add with `self.conf = ...` in place of `self.conf += ...`
AddConfOverwrite(c, pr, tg) ==
    HistogramDD(VStackT(Take(tg, ValidIndices(tg)), Take(pr, ValidIndices(tg))))

\* self.conf -= conf.astype(np.int32)
AddHistSubtract(c, hist) ==
    [t \in Classes |-> [p \in Classes |-> c[t][p] - AsInt32(hist[t][p])]]

\* self.conf += conf.astype(np.int32)
AddHist(c, hist) ==
    [t \in Classes |-> [p \in Classes |-> AddInt32(c[t][p], AsInt32(hist[t][p]))]]

\* self.conf after add(pred, target), by lines 154-166
AddConf(c, pr, tg) ==
    LET valid_indices == ValidIndices(tg)
        p2 == Take(pr, valid_indices)
        t2 == Take(tg, valid_indices)
        replace_indices == VStackT(t2, p2)
    IN  AddHist(c, HistogramDD(replace_indices))

\* the local array `conf` of add, lines 154-164: the histogram of the call
CallHist(pr, tg) ==
    LET valid_indices == ValidIndices(tg)
    IN  HistogramDD(VStackT(Take(tg, valid_indices), Take(pr, valid_indices)))

\* conf.sum(1): the row sums
RowSums(c) == [t \in Classes |-> SumInts(c[t], Classes)]

\* each cell divided by the sum of its column, conf.sum(0), in place of the
\* sum of its row
NormalizeByColumn(c) ==
    LET cs == [p \in Classes |-> SumInts([t \in Classes |-> c[t][p]], Classes)]
    IN  [t \in Classes |-> [p \in Classes |->
            IF cs[p] <= 0 THEN FromInt(0) ELSE Rat(c[t][p], cs[p])]]

\* conf / conf.sum(1).clip(min=1e-12)[:, None] on the float copy of the
\* counts: a row whose sum is zero is divided by 1e-12 and stays zero
Normalize(c) ==
    LET rs == RowSums(c)
    IN  [t \in Classes |-> [p \in Classes |->
            IF rs[t] <= 0 THEN FromInt(0) ELSE Rat(c[t][p], rs[t])]]

\* ConfusionMatrix.value(): the array returned.  `alias` tells whether the
\* array is self.conf itself (normalized False) or a fresh float array.
ConfusionMatrixValue(c, norm) ==
    IF norm
    THEN [alias |-> FALSE, dtype |-> "float32", data |-> Normalize(c)]
    ELSE [alias |-> TRUE, dtype |-> "int32",
          data |-> [t \in Classes |-> [p \in Classes |-> FromInt(c[t][p])]]]

\* history of the elements handed to add since creation or the last reset:
\* all of them, those with a target in [0, num_classes), and those with
\* moreover a prediction in the closed range [0, num_classes]
\* `cleared` tells that a reset wiped counts and nothing was added since
NoneSeen == [total |-> 0, valid |-> 0, binned |-> 0, cleared |-> FALSE]

See(s, pr, tg) ==
    [cleared |-> FALSE,
     total  |-> s.total + Len(tg),
     valid  |-> s.valid + Cardinality(ValidIndices(tg)),
     binned |-> s.binned + Cardinality({k \in ValidIndices(tg) :
                                           pr[k] >= 0 /\ pr[k] <= NumClasses})]

\* inputs of one add call in which the prediction is the target, element by
\* element: whole masks of up to MaxTotal elements
PerfectBatches ==
    UNION {{<<tg, tg>> : tg \in [1 .. n -> TargetLabels]} : n \in 0 .. MaxTotal}

\* same-shaped inputs of one add call whose predictions and targets are all
\* class labels, as the notebook's class_prediction and ground_truth are
ClassBatches ==
    UNION {[1 .. n -> Classes] \X [1 .. n -> Classes] : n \in 0 .. MaxLen}

\* one-dimensional inputs of one add call whose lengths are free of each
\* other: the prediction may be one element longer than the longest target
ShapeBatches ==
    (UNION {[1 .. n -> Classes] : n \in 0 .. (MaxLen + 1)})
        \X (UNION {[1 .. n -> TargetLabels] : n \in 0 .. MaxLen})

\* the threads that call into one instance, and a thread outside add
Threads == 1 .. 2
Idle == [pc |-> "idle", hist |-> NoResult, loaded |-> NoResult]

\* same-shaped flattened inputs of one add call
Batches ==
    UNION {[1 .. n -> PredLabels] \X [1 .. n -> TargetLabels] : n \in 0 .. MaxLen}

\* the same with predictions that are class labels, as an arg-max over the
\* class dimension gives them (class_prediction of the notebook)
LabelBatches ==
    UNION {[1 .. n -> Classes] \X [1 .. n -> TargetLabels] : n \in 0 .. MaxLen}

----------------------------------------------------------------------------
(* ConfusionMatrixBasedMetric and DiceCoefficient *)

\* ignore_indices as stored by __init__: None, or the tuple of the given
\* indices (only membership matters to the indexing below, so the tuple is
\* kept as the set of its items)
\* `others` holds the items of the tuple that are not integers
IgnoreNone == [is_none |-> TRUE, items |-> {}, others |-> {}]
IgnoreTuple(S) == [is_none |-> FALSE, items |-> S, others |-> {}]

IgnoreChoices == {IgnoreNone} \cup {IgnoreTuple(S) : S \in SUBSET Classes}

\* values a caller may hand to __init__ as ignore_indices: None, an int
\* (num_classes itself included, no line compares it with num_classes), a
\* tuple of ints, a str (iterable, its items are characters), a list holding
\* a float next to an int, and a float (not iterable)
IgnoreArgs ==
    {[type |-> "NoneType", ints |-> {}, others |-> {}]}
    \cup {[type |-> "int", ints |-> {i}, others |-> {}] : i \in 0..NumClasses}
    \cup {[type |-> "tuple", ints |-> S, others |-> {}] : S \in SUBSET Classes}
    \cup {[type |-> "str", ints |-> {}, others |-> {"a", "b"}],
          [type |-> "list", ints |-> {0}, others |-> {"0.5"}],
          [type |-> "float", ints |-> {}, others |-> {"0.5"}]}

\* tuple(ignore_indices) succeeds on the iterable types
Iterable(arg) == arg.type \in {"tuple", "list", "str"}

\* self.ignore_indices as lines 320-326 store it
StoredIgnore(arg) ==
    IF arg.type = "NoneType" THEN IgnoreNone
    ELSE IF arg.type = "int" THEN IgnoreTuple(arg.ints)
    ELSE [is_none |-> FALSE, items |-> arg.ints, others |-> arg.others]

\* values of one score of a prediction
Scores == {0, 1}

\* the scores of one element along the class dimension
ScoreVectors == [Classes -> Scores]

\* torch's argmax of one score vector: the first index of the largest score
ArgMax(v) ==
    CHOOSE c \in Classes :
        /\ \A j \in Classes : v[j] <= v[c]
        /\ \A j \in Classes : j < c => v[j] < v[c]

\* the index of the smallest score in place of the largest
ArgMinDim1(pr) ==
    [k \in DOMAIN pr |->
        CHOOSE c \in Classes :
            /\ \A j \in Classes : pr[k][j] >= pr[k][c]
            /\ \A j \in Classes : j < c => pr[k][j] > pr[k][c]]

\* pred.argmax(dim=1): one label per element
ArgMaxDim1(pr) == [k \in DOMAIN pr |-> ArgMax(pr[k])]

\* class_prediction = prediction_prob.argmax(dim=1) of the notebook's input
\* cell: per element, the least of the classes that hold the largest score
ClassPrediction(prob) ==
    [k \in DOMAIN prob |->
        LET best == {c \in Classes : \A j \in Classes : prob[k][j] <= prob[k][c]}
        IN  CHOOSE c \in best : \A j \in best : c <= j]

\* same-shaped inputs of one add call of a metric that takes scores
ScoreBatches ==
    UNION {[1 .. n -> ScoreVectors] \X [1 .. n -> TargetLabels] : n \in 0 .. MaxLen}

\* only conf_matrix[:, idx] = 0, the rows left as they are
ZeroColsOnly(m, idx, zero) ==
    [t \in Classes |-> [p \in Classes |-> IF p \in idx THEN zero ELSE m[t][p]]]

\* conf_matrix[:, idx] = 0 ; conf_matrix[idx, :] = 0, with `zero` the zero of
\* the array's element type
ZeroRowsCols(m, idx, zero) ==
    [t \in Classes |-> [p \in Classes |->
        IF t \in idx \/ p \in idx THEN zero ELSE m[t][p]]]

\* conf_matrix[:, self.ignore_indices] raises IndexError for an item that is
\* not an integer and for an integer outside [-num_classes, num_classes)
BadIndex(ignore) ==
    /\ ~ignore.is_none
    /\ \/ ignore.others # {}
       \/ \E i \in ignore.items : i < 0 - NumClasses \/ i >= NumClasses

\* np.diag(conf_matrix)
Diag(m) == [c \in Classes |-> m[c][c]]

\* np.sum(conf_matrix, 0): the sums down each column
SumAxis0(m) == [c \in Classes |-> SumRats([t \in Classes |-> m[t][c]], Classes)]

\* np.sum(conf_matrix, 1): the sums along each row
SumAxis1(m) == [c \in Classes |-> SumRats(m[c], Classes)]

Inf == <<1, 0>>
NegInf == <<0 - 1, 0>>

\* what a division that raises on a zero divisor leaves in place of a value
ZeroDivisionError == <<0, 0 - 1>>

\* a division that raises on a zero divisor, as Python's own `/` does
DivideStrict(x, y) ==
    IF y[1] = 0 THEN ZeroDivisionError ELSE Rat(x[1] * y[2], x[2] * y[1])

\* element-wise numpy true division under np.errstate(divide='ignore',
\* invalid='ignore'): 0/0 is nan, x/0 is +-inf, nothing is raised
Divide(x, y) ==
    IF y[1] = 0
    THEN (IF x[1] = 0 THEN NaN ELSE IF x[1] > 0 THEN Inf ELSE NegInf)
    ELSE Rat(x[1] * y[2], x[2] * y[1])

\* the intersection-over-union TP / (TP + FP + FN) in place of the Dice ratio
DiceOfAsIoU(m) ==
    LET tp == Diag(m)
        col == SumAxis0(m)
        row == SumAxis1(m)
    IN  [c \in Classes |->
            Divide(tp[c], RSub(RAdd(col[c], row[c]), tp[c]))]

\* the ratio without the factor 2 of its numerator:
\* true_positive / (2 * true_positive + false_positive + false_negative)
DiceOfSingleTP(m) ==
    LET tp == Diag(m)
        col == SumAxis0(m)
        row == SumAxis1(m)
    IN  [c \in Classes |-> Divide(tp[c], RAdd(col[c], row[c]))]

\* 2 * n in int32 arithmetic: past the int32 range the product wraps around
\* by 2^32 (written so that no step leaves the range)
Twice32(n) ==
    IF n > Int32Max \div 2
    THEN (n - Int32Max - 1) + (n - Int32Max - 1)
    ELSE IF n < 0 - (Int32Max \div 2) - 1
    THEN (n + Int32Max + 1) + (n + Int32Max + 1)
    ELSE 2 * n

\* 2 * true_positive, an array of the dtype of true_positive: np.diag keeps
\* the int32 of the counts and a Python int factor does not widen it, so a
\* whole-number entry is doubled in int32; the entries of the float matrix
\* (none above 1) are doubled exactly
Twice(x) == IF x[2] = 1 THEN FromInt(Twice32(x[1])) ELSE RScale(2, x)

\* dice = 2 * true_positive / (2 * true_positive + false_positive + false_negative)
\* (np.sum accumulates an int32 array in int64, so the sums do not wrap)
DiceOf(m) ==
    LET true_positive == Diag(m)
        col == SumAxis0(m)
        row == SumAxis1(m)
        false_positive == [c \in Classes |-> RSub(col[c], true_positive[c])]
        false_negative == [c \in Classes |-> RSub(row[c], true_positive[c])]
    IN  [c \in Classes |->
            Divide(Twice(true_positive[c]),
                   RAdd(RAdd(Twice(true_positive[c]), false_positive[c]),
                        false_negative[c]))]

\* np.delete(arr, idx): the positions of arr that are kept
Kept(arr, idx) == (DOMAIN arr) \ idx

\* a mean that counts each nan as a zero: np.mean(np.nan_to_num(arr))
NanMeanAsZero(arr, keep) ==
    LET defined == {c \in keep : ~IsNaN(arr[c])}
        total == SumRats(arr, defined)
    IN  IF keep = {} THEN NaN
        ELSE Rat(total[1], total[2] * Cardinality(keep))

\* np.nanmean over the positions `keep` of arr: the mean of the values that
\* are not nan, nan when there is none
NanMean(arr, keep) ==
    LET defined == {c \in keep : ~IsNaN(arr[c])}
        total == SumRats(arr, defined)
    IN  IF defined = {} THEN NaN
        ELSE Rat(total[1], total[2] * Cardinality(defined))

\* mdice of lines 401-409
MeanDice(d, ignore) ==
    IF ~ignore.is_none
    THEN NanMean(d, Kept(d, ignore.items))
    ELSE NanMean(d, DOMAIN d)

\* the matrix DiceCoefficient.value() computes on: what conf_matrix.value()
\* returned, with the ignored rows and columns set to zero
DiceMatrix(c, norm, ignore) ==
    LET v == ConfusionMatrixValue(c, norm)
    IN  IF ~ignore.is_none
        THEN ZeroRowsCols(v.data, ignore.items, FromInt(0))
        ELSE v.data

\* a value() that leaves the matrix without any count
ConfAfterDiceCleared(c, norm, ignore) == Zeros

\* self.conf_matrix.conf after DiceCoefficient.value(): lines 387 and 389
\* assign into the array value() returned, which is self.conf itself when the
\* matrix is not normalized
ConfAfterDice(c, norm, ignore) ==
    IF ~ignore.is_none /\ ConfusionMatrixValue(c, norm).alias
    THEN ZeroRowsCols(c, ignore.items, 0)
    ELSE c

----------------------------------------------------------------------------
(* ModelProfiler: the wrapped model and the hooks on its modules *)

\* largest height and width of an input tensor
MaxSize == 4

\* most hooks one module holds before a further forward is left out
MaxHooks == 3

\* a wrapped model, its modules in the order model.apply and the forward
\* pass visit them: Conv2d(3, 2, kernel_size=1), ReLU(),
\* Conv2d(2, 1, kernel_size=2)
Layers ==
    <<[kind |-> "Conv2d", in_channels |-> 3, out_channels |-> 2, kernel_size |-> 1],
      [kind |-> "ReLU", in_channels |-> 0, out_channels |-> 0, kernel_size |-> 0],
      [kind |-> "Conv2d", in_channels |-> 2, out_channels |-> 1, kernel_size |-> 2]>>

Modules == DOMAIN Layers

\* input tensors of shape (1, channels, size, size)
Inputs == [channels : {1, 3}, size : 1 .. MaxSize]

\* isinstance(module, (nn.Conv2d, nn.Linear))
IsCounted(m) == Layers[m].kind \in {"Conv2d", "Linear"}

\* the forward of module m returns on an input of shape x; a Conv2d raises
\* RuntimeError on a wrong number of channels and on an input smaller than
\* its kernel
Accepts(m, x) ==
    Layers[m].kind = "Conv2d" =>
        /\ x.channels = Layers[m].in_channels
        /\ x.size >= Layers[m].kernel_size

\* shape of the output of module m on an input of shape x
OutShape(m, x) ==
    IF Layers[m].kind = "Conv2d"
    THEN [channels |-> Layers[m].out_channels,
          size |-> x.size - Layers[m].kernel_size + 1]
    ELSE x

\* module.weight.size()[1:].numel(), weight of shape (out, in, k, k)
WeightNumel(m) ==
    Layers[m].in_channels * Layers[m].kernel_size * Layers[m].kernel_size

\* output.size()[1:].numel()
OutputNumel(out) == out.channels * out.size * out.size

\* what one call of hook_compute_flop adds to self.flops
HookFlops(m, out) == WeightNumel(m) * OutputNumel(out)

RECURSIVE RunModel(_, _, _, _)
\* self.model(x) from module m on, reg[m] hooks of the profiler being
\* registered on module m: every hook of a module fires once its forward
\* has returned; an exception of a module ends the run
RunModel(m, x, reg, acc) ==
    IF m > Len(Layers) THEN [flops |-> acc, raised |-> "none", output |-> x]
    ELSE IF ~Accepts(m, x)
    THEN [flops |-> acc, raised |-> "RuntimeError", output |-> NoResult]
    ELSE LET out == OutShape(m, x)
         IN  RunModel(m + 1, out, reg,
                      acc + (IF reg[m] > 0 THEN reg[m] * HookFlops(m, out) ELSE 0))

\* the handles _init_hooks collects: one per Conv2d / Linear module
NewHandles == SelectSeq([m \in Modules |-> m], IsCounted)

\* number of handles of the list h that belong to module m
HandlesOn(h, m) == Cardinality({k \in DOMAIN h : h[k] = m})

\* self.hooks = None
HooksNone == [is_none |-> TRUE, handles |-> <<>>]

\* self.units
units == ("K" :> 1000 @@ "M" :> 1000000 @@ "G" :> 1000000000)

\* values a caller may pass as units
UnitArgs == {"K", "M", "G", "T"}

\* ModelProfiler.__init__ on a model without hooks
ProfilerInit ==
    /\ flops = 0
    /\ hooks = HooksNone
    /\ forward_hooks = [m \in Modules |-> 0]
    /\ args = NoResult

----------------------------------------------------------------------------
(* get_latest_run_version_ckpt_epoch_no: the log directory *)

\* largest N of a version_N directory
MaxVersion == 1

\* most files of one checkpoints directory
MaxFiles == 2

\* file names, character by character
FileNames ==
    {<<"a", ".", "c", "k", "p", "t">>,
     <<"b", ".", "c", "k", "p", "t">>,
     <<"l", "o", "g">>}

\* str.endswith
EndsWith(str, suffix) ==
    /\ Len(str) >= Len(suffix)
    /\ SubSeq(str, Len(str) - Len(suffix) + 1, Len(str)) = suffix

\* os.listdir of a checkpoints directory: its files, each once, in any order
Listings ==
    UNION {{l \in [1 .. n -> FileNames] :
               \A i \in 1 .. n : \A j \in 1 .. n : i # j => l[i] # l[j]} :
           n \in 0 .. MaxFiles}

\* lightning_logs: the version_N directories present, each with the listing
\* of its checkpoints directory
LogDirs == UNION {[V -> Listings] : V \in SUBSET (0 .. MaxVersion)}

\* values a caller may pass as run_version
RunVersionArgs ==
    {[is_none |-> TRUE, n |-> 0]}
    \cup {[is_none |-> FALSE, n |-> v] : v \in 0 .. MaxVersion}

RECURSIVE MaxOf(_)
MaxOf(S) ==
    LET x == CHOOSE y \in S : TRUE
    IN  IF S = {x} THEN x
        ELSE LET r == MaxOf(S \ {x}) IN IF x > r THEN x ELSE r

\* lines 254-259: the given run_version, or the largest N of the version_N
\* directories, 0 when there is none
RunVersion(arg, logs) ==
    IF arg.is_none THEN MaxOf({0} \cup DOMAIN logs) ELSE arg.n

\* positions of the listing that hold a file ending in .ckpt
CkptAt(files) ==
    {k \in DOMAIN files : EndsWith(files[k], <<".", "c", "k", "p", "t">>)}

\* no log directory and nothing printed
NoLogs ==
    /\ lightning_logs = <<>>
    /\ stdout = <<>>

----------------------------------------------------------------------------
(* Initial states *)

\* a metric right after construction: DiceCoefficient(num_classes,
\* reduced_probs=True, normalized, ignore_indices); its matrix was reset by
\* ConfusionMatrix.__init__
Init ==
    /\ conf = Zeros
    /\ normalized \in BOOLEAN
    /\ ignore_indices \in IgnoreChoices
    /\ op = "init"
    /\ raised = "none"
    /\ pred = NoResult
    /\ target = NoResult
    /\ ret = NoResult
    /\ mdice = NoResult
    /\ dice = NoResult
    /\ seen = NoneSeen
    /\ shard = <<Zeros, Zeros>>
    /\ reduced_probs = TRUE
    /\ thread = [i \in Threads |-> Idle]
    /\ ProfilerInit
    /\ NoLogs

\* the two settings of ignore_indices the notebook constructs its metrics
\* with: None and (0,)
InitNotebook == Init /\ ignore_indices \in {IgnoreNone, IgnoreTuple({0})}

\* the same two settings with reduced_probs=False, the metric that takes
\* scores
InitProbs ==
    /\ conf = Zeros
    /\ normalized \in BOOLEAN
    /\ ignore_indices \in {IgnoreNone, IgnoreTuple({0})}
    /\ op = "init"
    /\ raised = "none"
    /\ pred = NoResult
    /\ target = NoResult
    /\ ret = NoResult
    /\ mdice = NoResult
    /\ dice = NoResult
    /\ seen = NoneSeen
    /\ shard = <<Zeros, Zeros>>
    /\ reduced_probs = FALSE
    /\ thread = [i \in Threads |-> Idle]
    /\ ProfilerInit
    /\ NoLogs

\* a ConfusionMatrix(num_classes, normalized) used on its own
InitCM == Init /\ ignore_indices = IgnoreNone

\* ConfusionMatrix(num_classes=3, normalized=False)
InitRaw == InitCM /\ normalized = FALSE

\* the same matrix after 2^31 - 2 elements of target 0 and prediction 0 were
\* added to it; `seen` counts the elements added from here on
InitHigh ==
    /\ conf = [Zeros EXCEPT ![0][0] = Int32Max - 1]
    /\ normalized = FALSE
    /\ ignore_indices = IgnoreNone
    /\ op = "add"
    /\ raised = "none"
    /\ pred = NoResult
    /\ target = NoResult
    /\ ret = NoResult
    /\ mdice = NoResult
    /\ dice = NoResult
    /\ seen = NoneSeen
    /\ shard = <<Zeros, Zeros>>
    /\ reduced_probs = TRUE
    /\ thread = [i \in Threads |-> Idle]
    /\ ProfilerInit
    /\ NoLogs

----------------------------------------------------------------------------
(* ConfusionMatrix operations *)

\* ConfusionMatrix.add(pred, target) on same-shaped inputs
\* a metric of raw counts that has seen Int32Max - MaxTotal pairs of class 0
\* predicted as class 0: no cell leaves the int32 range within MaxTotal
\* further pairs
InitLarge ==
    /\ conf = [Zeros EXCEPT ![0][0] = Int32Max - MaxTotal]
    /\ normalized = FALSE
    /\ ignore_indices = IgnoreNone
    /\ op = "add"
    /\ raised = "none"
    /\ pred = NoResult
    /\ target = NoResult
    /\ ret = NoResult
    /\ mdice = NoResult
    /\ dice = NoResult
    /\ seen = NoneSeen
    /\ shard = <<Zeros, Zeros>>
    /\ reduced_probs = TRUE
    /\ thread = [i \in Threads |-> Idle]
    /\ ProfilerInit
    /\ NoLogs

AddCall(pr, tg) ==
    /\ seen.total + Len(tg) <= MaxTotal
    /\ conf' = AddConf(conf, pr, tg)
    /\ seen' = See(seen, pr, tg)
    /\ op' = "add"
    /\ raised' = "none"
    /\ ret' = NoResult
    /\ mdice' = NoResult
    /\ dice' = NoResult
    /\ UNCHANGED <<normalized, ignore_indices, reduced_probs,
                   flops, hooks, forward_hooks, args, lightning_logs, stdout, thread>>

Add ==
    \E b \in Batches :
        /\ AddCall(b[1], b[2])
        /\ UNCHANGED <<pred, target, shard>>

\* the same call with its arguments kept for inspection
AddTraced ==
    \E b \in Batches :
        /\ AddCall(b[1], b[2])
        /\ pred' = b[1]
        /\ target' = b[2]
        /\ UNCHANGED shard

\* ConfusionMatrix.add(pred, target) on one-dimensional arrays of any two
\* lengths: pred[valid_indices] raises IndexError when a valid position of
\* target is past the end of pred, and takes the elements at the valid
\* positions otherwise
AddAnyShape ==
    \E b \in ShapeBatches :
        /\ seen.total + Len(b[2]) <= MaxTotal
        /\ IF ValidIndices(b[2]) \subseteq DOMAIN b[1]
           THEN /\ conf' = AddConf(conf, b[1], b[2])
                /\ seen' = See(seen, b[1], b[2])
                /\ raised' = "none"
           ELSE /\ raised' = "IndexError"
                /\ UNCHANGED <<conf, seen>>
        /\ op' = "add"
        /\ pred' = b[1]
        /\ target' = b[2]
        /\ ret' = NoResult
        /\ mdice' = NoResult
        /\ dice' = NoResult
        /\ UNCHANGED <<normalized, ignore_indices, reduced_probs,
                       flops, hooks, forward_hooks, args, lightning_logs, stdout, thread, shard>>

\* ConfusionMatrix.reset() forgetting self.conf.fill(0)
ResetKeep ==
    /\ conf' = conf
    /\ seen' = [NoneSeen EXCEPT !.cleared = seen.cleared \/ conf # Zeros]
    /\ op' = "reset"
    /\ raised' = "none"
    /\ pred' = NoResult
    /\ target' = NoResult
    /\ ret' = NoResult
    /\ mdice' = NoResult
    /\ dice' = NoResult
    /\ UNCHANGED <<normalized, ignore_indices, reduced_probs,
                   flops, hooks, forward_hooks, args, lightning_logs, stdout, thread, shard>>

\* ConfusionMatrix.reset(): self.conf.fill(0)
Reset ==
    /\ conf' = Zeros
    /\ seen' = [NoneSeen EXCEPT !.cleared = seen.cleared \/ conf # Zeros]
    /\ op' = "reset"
    /\ raised' = "none"
    /\ pred' = NoResult
    /\ target' = NoResult
    /\ ret' = NoResult
    /\ mdice' = NoResult
    /\ dice' = NoResult
    /\ UNCHANGED <<normalized, ignore_indices, reduced_probs,
                   flops, hooks, forward_hooks, args, lightning_logs, stdout, thread, shard>>

\* ConfusionMatrix.value() dividing self.conf in place: each cell is left
\* with the whole part of its normalized value
ValueInPlace ==
    /\ ret' = ConfusionMatrixValue(conf, normalized)
    /\ conf' = IF normalized
               THEN [t \in Classes |-> [p \in Classes |->
                        ret'.data[t][p][1] \div ret'.data[t][p][2]]]
               ELSE conf
    /\ op' = "value"
    /\ raised' = "none"
    /\ pred' = NoResult
    /\ target' = NoResult
    /\ mdice' = NoResult
    /\ dice' = NoResult
    /\ UNCHANGED <<seen, normalized, ignore_indices, reduced_probs,
                   flops, hooks, forward_hooks, args, lightning_logs, stdout, thread, shard>>

\* ConfusionMatrix.value(): returns an array, assigns nothing
Value ==
    /\ ret' = ConfusionMatrixValue(conf, normalized)
    /\ op' = "value"
    /\ raised' = "none"
    /\ pred' = NoResult
    /\ target' = NoResult
    /\ mdice' = NoResult
    /\ dice' = NoResult
    /\ UNCHANGED <<conf, seen, normalized, ignore_indices, reduced_probs,
                   flops, hooks, forward_hooks, args, lightning_logs, stdout, thread,
                   shard>>

----------------------------------------------------------------------------
(* Metric operations *)

\* DiceCoefficient(num_classes, reduced_probs, normalized, ignore_indices)
\* bound to the name of the metric: a ValueError leaves the name with the
\* object it had
Construct ==
    \E rp \in BOOLEAN : \E norm \in BOOLEAN : \E arg \in IgnoreArgs :
        /\ IF arg.type \notin {"NoneType", "int"} /\ ~Iterable(arg)
           THEN /\ raised' = "ValueError"
                /\ UNCHANGED <<conf, normalized, ignore_indices, reduced_probs,
                               flops, hooks, forward_hooks, args, lightning_logs, stdout,
                               seen>>
           ELSE /\ raised' = "none"
                /\ conf' = Zeros
                /\ normalized' = norm
                /\ reduced_probs' = rp
                /\ ignore_indices' = StoredIgnore(arg)
                /\ seen' = NoneSeen
        /\ op' = "init"
        /\ pred' = NoResult
        /\ target' = NoResult
        /\ ret' = NoResult
        /\ mdice' = NoResult
        /\ dice' = NoResult
        /\ UNCHANGED <<thread, shard,
                       flops, hooks, forward_hooks, args, lightning_logs, stdout>>

\* ConfusionMatrixBasedMetric.add(pred, target) with reduced_probs True:
\* pred holds labels and goes to the matrix as it is
MetricAdd ==
    /\ reduced_probs
    /\ \E b \in LabelBatches :
          /\ AddCall(b[1], b[2])
          /\ UNCHANGED <<pred, target, shard>>

\* the same call with its arguments kept for inspection, the labels of the
\* prediction being the caller's
MetricAddTraced ==
    /\ reduced_probs
    /\ \E b \in Batches :
          /\ AddCall(b[1], b[2])
          /\ pred' = b[1]
          /\ target' = b[2]
          /\ UNCHANGED shard

\* the same call with a prediction that is the target itself, the arguments
\* kept for inspection
MetricAddPerfect ==
    /\ reduced_probs
    /\ \E b \in PerfectBatches :
          /\ AddCall(b[1], b[2])
          /\ pred' = b[1]
          /\ target' = b[2]
          /\ UNCHANGED shard

\* ConfusionMatrixBasedMetric.add(pred, target) with reduced_probs False:
\* pred holds scores and its arg-max goes to the matrix
MetricAddProbs ==
    /\ ~reduced_probs
    /\ \E b \in ScoreBatches :
          /\ AddCall(ArgMaxDim1(b[1]), b[2])
          /\ UNCHANGED <<pred, target, shard>>

\* ConfusionMatrixBasedMetric.reset(): self.conf_matrix.reset()
MetricReset == Reset

\* DiceCoefficient.value() on the metric; line 387 raises before it assigns
\* when an ignore index is no index of the matrix
DiceCall ==
    LET d == DiceOf(DiceMatrix(conf, normalized, ignore_indices))
        fails == \E c \in Classes : d[c] = ZeroDivisionError
    IN  /\ IF BadIndex(ignore_indices)
           THEN /\ raised' = "IndexError"
                /\ dice' = NoResult
                /\ mdice' = NoResult
                /\ conf' = conf
           ELSE /\ conf' = ConfAfterDice(conf, normalized, ignore_indices)
                /\ raised' = IF fails THEN "ZeroDivisionError" ELSE "none"
                /\ dice' = IF fails THEN NoResult ELSE d
                /\ mdice' = IF fails THEN NoResult ELSE MeanDice(d, ignore_indices)
        /\ op' = "dice"
        /\ pred' = NoResult
        /\ target' = NoResult
        /\ ret' = NoResult
        /\ UNCHANGED <<seen, normalized, ignore_indices, reduced_probs,
                       flops, hooks, forward_hooks, args, lightning_logs, stdout, thread>>

\* DiceCoefficient.value()
DiceValue == DiceCall /\ UNCHANGED shard

----------------------------------------------------------------------------
(* Two metrics side by side: the metric, and a second one of the same
   num_classes, normalized and ignore_indices whose matrix is shard[1] *)

\* the metric, reduced_probs False, is fed scores; the second metric,
\* reduced_probs True, is fed the class_prediction of the same scores and
\* hands it to its matrix as it is
PairAdd ==
    /\ ~reduced_probs
    /\ \E b \in ScoreBatches :
          /\ AddCall(ArgMaxDim1(b[1]), b[2])
          /\ shard' = [shard EXCEPT
                          ![1] = AddConf(shard[1], ClassPrediction(b[1]), b[2])]
          /\ UNCHANGED <<pred, target>>

\* both metrics, reduced_probs True, are fed the same labels
TwinAdd ==
    /\ reduced_probs
    /\ \E b \in LabelBatches :
          /\ AddCall(b[1], b[2])
          /\ shard' = [shard EXCEPT ![1] = AddConf(shard[1], b[1], b[2])]
          /\ UNCHANGED <<pred, target>>

\* value() on both metrics; dice and mdice are what the first returned
PairValue ==
    /\ DiceCall
    /\ shard' = [shard EXCEPT
                    ![1] = ConfAfterDice(shard[1], normalized, ignore_indices)]

----------------------------------------------------------------------------
(* Sharded accumulation: two more instances, each fed a part of the data *)

\* ConfusionMatrix.add on shard i of a batch that the single instance `conf`
\* is given too
ShardAdd ==
    \E i \in 1 .. 2 : \E b \in Batches :
        /\ AddCall(b[1], b[2])
        /\ shard' = [shard EXCEPT ![i] = AddConf(shard[i], b[1], b[2])]
        /\ UNCHANGED <<pred, target>>

\* reset() on all three instances
ShardReset ==
    /\ conf' = Zeros
    /\ shard' = <<Zeros, Zeros>>
    /\ seen' = [NoneSeen EXCEPT !.cleared = seen.cleared \/ conf # Zeros]
    /\ op' = "reset"
    /\ raised' = "none"
    /\ pred' = NoResult
    /\ target' = NoResult
    /\ ret' = NoResult
    /\ mdice' = NoResult
    /\ dice' = NoResult
    /\ UNCHANGED <<normalized, ignore_indices, reduced_probs,
                   flops, hooks, forward_hooks, args, lightning_logs, stdout, thread>>

----------------------------------------------------------------------------
(* Unserialized callers: two threads, each making one add call on the
   instance `conf` between two resets.  `self.conf += x` reads the cells of
   self.conf and writes the sums back; the read and the write of one call are
   two steps, each taken on the whole matrix.  Thread i also feeds its batch
   to an instance of its own, shard[i], which no other thread touches. *)

\* a thread whose call has returned
Returned == [pc |-> "returned", hist |-> NoResult, loaded |-> NoResult]

NoneInside == \A i \in Threads : thread[i].pc # "loaded"

AllReturned == \A i \in Threads : thread[i].pc = "returned"

\* thread i runs add up to the read of self.conf
AddBegin(i) ==
    /\ thread[i].pc = "idle"
    /\ \E b \in ClassBatches :
          /\ seen.total + Len(b[2]) <= MaxTotal
          /\ thread' = [thread EXCEPT
                           ![i] = [pc |-> "loaded",
                                   hist |-> CallHist(b[1], b[2]),
                                   loaded |-> conf]]
          /\ seen' = See(seen, b[1], b[2])
          /\ shard' = [shard EXCEPT ![i] = AddConf(shard[i], b[1], b[2])]
    /\ UNCHANGED <<conf, normalized, ignore_indices, reduced_probs,
                   flops, hooks, forward_hooks, args, lightning_logs, stdout, op, raised,
                   pred, target, ret, mdice, dice>>

\* thread i writes the sums back and returns from add
AddEnd(i) ==
    /\ thread[i].pc = "loaded"
    /\ conf' = AddHist(thread[i].loaded, thread[i].hist)
    /\ thread' = [thread EXCEPT ![i] = Returned]
    /\ op' = "add"
    /\ raised' = "none"
    /\ UNCHANGED <<seen, shard, normalized, ignore_indices, reduced_probs,
                   flops, hooks, forward_hooks, args, lightning_logs, stdout,
                   pred, target, ret, mdice, dice>>

RaceBegin == \E i \in Threads : AddBegin(i)

RaceEnd == \E i \in Threads : AddEnd(i)

\* reset() on all instances while no thread is inside add: a new round
RaceReset ==
    /\ NoneInside
    /\ conf' = Zeros
    /\ shard' = <<Zeros, Zeros>>
    /\ thread' = [i \in Threads |-> Idle]
    /\ seen' = [NoneSeen EXCEPT !.cleared = seen.cleared \/ conf # Zeros]
    /\ op' = "reset"
    /\ raised' = "none"
    /\ pred' = NoResult
    /\ target' = NoResult
    /\ ret' = NoResult
    /\ mdice' = NoResult
    /\ dice' = NoResult
    /\ UNCHANGED <<normalized, ignore_indices, reduced_probs,
                   flops, hooks, forward_hooks, args, lightning_logs, stdout>>

----------------------------------------------------------------------------
(* Specifications *)

Next == MetricAdd \/ MetricReset \/ DiceValue

\* the Dice metric under any order of add, reset and value calls
Spec == Init /\ [][Next]_vars

NextCM == Add \/ Reset \/ Value

\* a ConfusionMatrix under any order of add, reset and value calls
SpecCM == InitCM /\ [][NextCM]_vars

NextTrace == AddTraced \/ Reset \/ Value

\* the same, with the arguments of each add kept in the state
SpecTrace == InitCM /\ [][NextTrace]_vars

NextMerge == ShardAdd \/ ShardReset

\* one instance fed everything next to two instances fed a part each
SpecMerge == InitCM /\ [][NextMerge]_vars

NextShape == AddAnyShape \/ Reset \/ Value

\* a ConfusionMatrix whose callers do not keep the two shapes equal
SpecShape == InitCM /\ [][NextShape]_vars

NextPerfect == MetricAddPerfect \/ MetricReset \/ DiceValue

\* the Dice metric fed predictions that agree with the target everywhere
SpecPerfect == InitNotebook /\ [][NextPerfect]_vars

NextLabels == MetricAddTraced \/ MetricReset \/ DiceValue

\* the Dice metric fed any labels, the arguments of each add kept in the state
SpecLabels == InitNotebook /\ [][NextLabels]_vars

NextPair == PairAdd \/ ShardReset \/ PairValue

\* a metric fed scores next to a metric fed the labels of the same scores
SpecPair == InitProbs /\ [][NextPair]_vars

NextRace == RaceBegin \/ RaceEnd \/ RaceReset

\* two threads adding to one ConfusionMatrix without serialization
SpecRace == InitRaw /\ [][NextRace]_vars

\* a matrix that has run for long
SpecHigh == InitHigh /\ [][NextCM]_vars

\* a metric over a matrix of large counts
SpecLarge == InitLarge /\ [][Next]_vars

\* the same matrix, with the arrays of every add call recorded
SpecHighTrace == InitHigh /\ [][NextTrace]_vars

NextTwin == TwinAdd \/ DiceValue \/ ShardReset

\* a metric queried at any time next to a metric fed the same and never
\* queried
SpecTwin == InitNotebook /\ [][NextTwin]_vars

NextCtor == Construct \/ MetricAdd \/ MetricAddProbs \/ MetricReset \/ DiceValue

\* metrics constructed one after the other under one name, fed and queried
SpecCtor == Init /\ [][NextCtor]_vars

----------------------------------------------------------------------------
(* ModelProfiler *)

\* ModelProfiler.forward(x): the counter is set to 0, _init_hooks registers
\* one hook on every Conv2d / Linear module and keeps the handles, the model
\* runs, and _remove_hooks removes the hooks of the kept handles; when the
\* model raises, the exception leaves forward before _remove_hooks
Forward ==
    \E x \in Inputs :
        /\ \A m \in Modules : forward_hooks[m] < MaxHooks
        /\ LET registered == [m \in Modules |->
                                 forward_hooks[m] + HandlesOn(NewHandles, m)]
               run == RunModel(1, x, registered, 0)
           IN  /\ flops' = run.flops
               /\ raised' = run.raised
               /\ ret' = run.output
               /\ IF run.raised = "none"
                  THEN /\ hooks' = HooksNone
                       /\ forward_hooks' = [m \in Modules |->
                              registered[m] - HandlesOn(NewHandles, m)]
                  ELSE /\ hooks' = [is_none |-> FALSE, handles |-> NewHandles]
                       /\ forward_hooks' = registered
        /\ args' = x
        /\ op' = "forward"
        /\ UNCHANGED <<conf, normalized, ignore_indices, pred, target, mdice,
                       dice, seen, shard, reduced_probs, thread,
                       lightning_logs, stdout>>

\* ModelProfiler.get_flops(units)
GetFlops ==
    \E u \in UnitArgs :
        /\ IF u \in DOMAIN units
           THEN /\ raised' = "none"
                /\ ret' = [units |-> u, value |-> Rat(flops, units[u])]
           ELSE /\ raised' = "AssertionError"
                /\ ret' = NoResult
        /\ op' = "get_flops"
        /\ UNCHANGED <<conf, normalized, ignore_indices, pred, target, mdice,
                       dice, seen, shard, reduced_probs, thread, flops, hooks,
                       forward_hooks, args, lightning_logs, stdout>>

NextProfiler == Forward \/ GetFlops

\* one ModelProfiler over one model
SpecProfiler == InitRaw /\ [][NextProfiler]_vars

----------------------------------------------------------------------------
(* get_latest_run_version_ckpt_epoch_no *)

\* a log directory as a training left it, nothing looked up yet
InitCkpt ==
    /\ conf = Zeros
    /\ normalized = FALSE
    /\ ignore_indices = IgnoreNone
    /\ op = "init"
    /\ raised = "none"
    /\ pred = NoResult
    /\ target = NoResult
    /\ ret = NoResult
    /\ mdice = NoResult
    /\ dice = NoResult
    /\ seen = NoneSeen
    /\ shard = <<Zeros, Zeros>>
    /\ reduced_probs = TRUE
    /\ thread = [i \in Threads |-> Idle]
    /\ ProfilerInit
    /\ lightning_logs \in LogDirs
    /\ stdout = <<>>

\* get_latest_run_version_ckpt_epoch_no(run_version=arg): os.listdir of a
\* directory that does not exist raises FileNotFoundError; the last file of
\* the listing that ends in .ckpt gives ckpt_path; without such a file the
\* message is printed and `return ckpt_path` reads a local that was never
\* assigned
GetCkpt ==
    \E arg \in RunVersionArgs :
        LET run_version == RunVersion(arg, lightning_logs)
            files == lightning_logs[run_version]
        IN  /\ IF run_version \notin DOMAIN lightning_logs
               THEN /\ raised' = "FileNotFoundError"
                    /\ ret' = NoResult
                    /\ stdout' = <<>>
               ELSE IF CkptAt(files) # {}
               THEN /\ raised' = "none"
                    /\ ret' = [version |-> run_version,
                               file |-> files[MaxOf(CkptAt(files))]]
                    /\ stdout' = <<>>
               ELSE /\ raised' = "UnboundLocalError"
                    /\ ret' = NoResult
                    /\ stdout' = <<"CKPT file is not present">>
            /\ args' = arg
            /\ op' = "get_ckpt"
            /\ UNCHANGED <<conf, normalized, ignore_indices, pred, target,
                           mdice, dice, seen, shard, reduced_probs, thread,
                           flops, hooks, forward_hooks, lightning_logs>>

NextCkpt == GetCkpt

\* look-ups in one log directory
SpecCkpt == InitCkpt /\ [][NextCkpt]_vars

----------------------------------------------------------------------------
(* Properties of the ConfusionMatrix *)

\* sum of all cells of a count matrix
SumAll(c) == SumInts(RowSums(c), Classes)

C2_AddCountsPairsPerCell ==
    [][op' = "add" =>
        /\ raised' = "none"
        /\ \A t \in Classes : \A p \in Classes :
              conf'[t][p] = conf[t][p]
                  + Cardinality({k \in DOMAIN target' :
                                    target'[k] = t /\ pred'[k] = p})]_vars

\* C3: DiceCoefficient.value() leaves every cell of the count matrix as it
\* was, whatever normalized and ignore_indices are.
C3_DiceValueKeepsCounts == [][op' = "dice" => conf' = conf]_vars

\* C4: ConfusionMatrix.value() leaves the count matrix as it was, with
\* normalized False and with normalized True.
C4_ValueKeepsCounts == [][op' = "value" => conf' = conf]_vars

\* value() returned the normalized view of a matrix holding counts
C4_Witness ==
    /\ op = "value"
    /\ normalized
    /\ ret.dtype = "float32"
    /\ \E t \in Classes : \E p \in Classes :
          conf[t][p] = 1 /\ ret.data[t][p] = <<1, 2>>

\* C5: reset never fails and leaves an all-zero matrix, so that a value()
\* right after a reset returns all zeros, whatever was called before.
C5_ResetThenValueIsZero ==
    /\ [](op = "reset" => raised = "none" /\ conf = Zeros)
    /\ [](ENABLED Reset)
    /\ [][(op = "reset" /\ op' = "value") =>
            /\ raised' = "none"
            /\ \A t \in Classes : \A p \in Classes : ret'.data[t][p] = FromInt(0)]_vars

\* value() returned zeros after a reset that wiped counts
C5_Witness ==
    /\ op = "value"
    /\ seen.cleared
    /\ seen.total = 0
    /\ \A t \in Classes : \A p \in Classes : ret.data[t][p] = FromInt(0)

\* element-wise sum of two count matrices
Merge(a, b) == [t \in Classes |-> [p \in Classes |-> AddInt32(a[t][p], b[t][p])]]

\* C6: however the batches are split between two instances and in whatever
\* order they arrive, the element-wise sum of the two matrices, taken either
\* way round, is the matrix of the instance that was given every batch.
C6_MergeIsSingleInstance ==
    /\ Merge(shard[1], shard[2]) = conf
    /\ Merge(shard[2], shard[1]) = conf

\* both shards hold counts and a cell got counts from both
C6_Witness ==
    /\ shard[1] # Zeros
    /\ shard[2] # Zeros
    /\ \E t \in Classes : \E p \in Classes :
          shard[1][t][p] > 0 /\ shard[2][t][p] > 0 /\ conf[t][p] >= 2

----------------------------------------------------------------------------
(* Properties of DiceCoefficient.value() *)

\* a count matrix as an array of rationals
Counts(c) == [t \in Classes |-> [p \in Classes |-> FromInt(c[t][p])]]

\* the Dice ratio of class c read off the square matrix m over the classes K:
\* TP = m[c][c], FP = column sum - TP, FN = row sum - TP,
\* 2 TP / (2 TP + FP + FN), not-a-number when the divisor is zero
DiceRatio(m, K, c) ==
    LET tp == m[c][c]
        fp == RSub(SumRats([t \in Classes |-> m[t][c]], K), tp)
        fn == RSub(SumRats(m[c], K), tp)
        den == RAdd(RAdd(RScale(2, tp), fp), fn)
    IN  IF den[1] = 0 THEN NaN ELSE Rat(2 * tp[1] * den[2], tp[2] * den[1])

\* m with the rows and columns of the classes in idx cleared
Cleared(m, idx) ==
    [t \in Classes |-> [p \in Classes |->
        IF t \in idx \/ p \in idx THEN FromInt(0) ELSE m[t][p]]]

\* the arithmetic mean of the values of d over the classes K is x
\* (not-a-number when K is empty)
IsMeanOver(x, d, K) ==
    IF K = {} THEN x = NaN
    ELSE /\ x # NaN
         /\ RScale(Cardinality(K), x) = SumRats(d, K)

MeanClasses == {c \in Classes \ ignore_indices.items : dice[c] # NaN}

\* C8: the mean Dice is the arithmetic mean of the per-class values that are
\* not ignored and not not-a-number; a not-a-number class is left out of the
\* mean, it does not count as a zero.
C8_MeanOfDefinedClasses ==
    (op = "dice" /\ raised = "none") => IsMeanOver(mdice, dice, MeanClasses)

\* a class without any count is left out of a mean over other classes
C8_Witness ==
    /\ op = "dice"
    /\ ignore_indices.is_none
    /\ \E c \in Classes : dice[c] = NaN
    /\ \E c \in Classes : dice[c] = <<2, 3>>
    /\ \E c \in Classes : dice[c] = <<0, 1>>
    /\ mdice = <<1, 3>>

\* the counts of c over the classes K, each row divided by its sum over K
NormalizedOver(c, K) ==
    [t \in Classes |-> [p \in Classes |->
        IF SumInts(c[t], K) = 0 THEN FromInt(0)
        ELSE Rat(c[t][p], SumInts(c[t], K))]]

EmptyClass(c) ==
    \/ c \in ignore_indices.items
    \/ \A j \in Classes \ ignore_indices.items : conf[c][j] = 0 /\ conf[j][c] = 0

\* C10: value() raises nothing on a zero divisor: a class with no true
\* positive, false positive or false negative has the not-a-number Dice
\* value and the mean is the mean over the other classes, not-a-number when
\* there is none, as for the empty matrix.
C10_ZeroDivisorGivesNaN ==
    op = "dice" =>
        /\ raised = "none"
        /\ \A c \in Classes : EmptyClass(c) => dice[c] = NaN
        /\ IsMeanOver(mdice, dice, {c \in Classes : ~EmptyClass(c)})

\* value() on the matrix a reset emptied
C10_Witness ==
    /\ op = "dice"
    /\ raised = "none"
    /\ seen.cleared
    /\ conf = Zeros
    /\ mdice = NaN
    /\ \A c \in Classes : dice[c] = NaN

----------------------------------------------------------------------------
(* Properties of construction and of the calling contract *)

\* C11: a metric that was constructed holds no malformed ignore_indices:
\* the stored value is None or a tuple whose items are all integers, a value
\* that is neither an integer nor an iterable of integers having ended the
\* construction with a ValueError.
C11_NoMalformedIgnoreStored == ignore_indices.is_none \/ ignore_indices.others = {}

\* C12: an add call whose predicted and target arrays differ in shape ends
\* with an error and leaves every cell of the count matrix as it was.
C12_ShapeMismatchFails ==
    [][(op' = "add" /\ Len(pred') # Len(target')) =>
          (raised' # "none" /\ conf' = conf)]_vars

\* C13: with normalized True, value() returns each row of the counts divided
\* by the larger of its sum and epsilon: a row that holds a count is divided
\* by its sum and sums to 1, a row without any count is all zero.
C13_RowsSumToOneOrZero ==
    (op = "value" /\ normalized) =>
        \A t \in Classes :
            LET total == SumInts(conf[t], Classes)
            IN  IF total > 0
                THEN /\ \A p \in Classes :
                          RScale(total, ret.data[t][p]) = FromInt(conf[t][p])
                     /\ SumRats(ret.data[t], Classes) = FromInt(1)
                ELSE \A p \in Classes : ret.data[t][p] = FromInt(0)

\* a normalized view with a row of unequal shares and a row without counts
C13_Witness ==
    /\ op = "value"
    /\ normalized
    /\ \E t \in Classes : \E p \in Classes : \E q \in Classes :
          /\ conf[t][p] = 2 /\ ret.data[t][p] = <<2, 3>>
          /\ conf[t][q] = 1 /\ ret.data[t][q] = <<1, 3>>
    /\ \E t \in Classes : \A p \in Classes :
          conf[t][p] = 0 /\ ret.data[t][p] = FromInt(0)

----------------------------------------------------------------------------
(* Properties of the Dice values on whole predictions *)

\* the values an array holds
Range(a) == {a[k] : k \in DOMAIN a}

\* C14: with ignore_indices unset, value() right after the add of a perfect
\* prediction (predicted equal to target at every element, every class of
\* [0, num_classes) among the targets) returns the Dice value 1 for every
\* class and the mean Dice 1.
C14_PerfectPredictionIsOne ==
    [][(/\ op = "add"
        /\ pred = target
        /\ Classes \subseteq Range(target)
        /\ ignore_indices.is_none
        /\ op' = "dice") =>
          /\ raised' = "none"
          /\ \A c \in Classes : dice'[c] = FromInt(1)
          /\ mdice' = FromInt(1)]_vars

\* value() returned all ones on a matrix holding every class on its diagonal
\* and nothing else
C14_Witness ==
    /\ op = "dice"
    /\ ignore_indices.is_none
    /\ seen.total = NumClasses
    /\ \A t \in Classes : \A p \in Classes : conf[t][p] = (IF t = p THEN 1 ELSE 0)
    /\ \A c \in Classes : dice[c] = FromInt(1)
    /\ mdice = FromInt(1)

\* C15: value() right after the add of a fully disjoint prediction (no
\* predicted element equal to its target) to an empty metric returns the
\* Dice value 0 for every class that is among the targets; stated here for
\* the case the claim cannot mean otherwise: ignore_indices unset and every
\* element of the call counted by add, none dropped.
C15_DisjointPredictionIsZero ==
    [][(/\ op = "add"
        /\ seen.total = Len(target)
        /\ seen.binned = Len(target)
        /\ ignore_indices.is_none
        /\ \A k \in DOMAIN target : pred[k] # target[k]
        /\ op' = "dice") =>
          \A c \in Classes \cap Range(target) : dice'[c] = FromInt(0)]_vars

----------------------------------------------------------------------------
(* Properties of the reduction of scores to labels *)

\* C16: a metric with reduced_probs False fed scores holds, after every
\* call, the matrix of a metric with reduced_probs True fed the arg-max
\* labels of the same scores and the same targets, and its value() returns
\* what the value() of that metric returns.
C16_ScoresAsArgMaxLabels ==
    /\ [](conf = shard[1])
    /\ [][op' = "dice" =>
            LET other == DiceOf(DiceMatrix(shard[1], normalized, ignore_indices))
            IN  /\ dice' = other
                /\ mdice' = MeanDice(other, ignore_indices)]_vars

\* value() after scores whose largest entry was the first class for one
\* element and the last class for another
C16_Witness ==
    /\ op = "dice"
    /\ ~reduced_probs
    /\ \E t \in Classes : shard[1][t][0] > 0
    /\ \E t \in Classes : shard[1][t][NumClasses - 1] > 0
    /\ mdice # NaN

----------------------------------------------------------------------------
(* Properties of unserialized adds *)

----------------------------------------------------------------------------
(* Properties of the order of calls *)

\* C18: in every reachable state of a metric, empty or accumulated, add and
\* reset can be called (value() has no condition to meet), and whichever of
\* add, value and reset returned last ended without an error.
C18_EveryCallCompletes ==
    /\ op \in {"add", "dice", "reset"} => raised = "none"
    /\ ENABLED (MetricAdd \/ MetricAddProbs)
    /\ ENABLED MetricReset

----------------------------------------------------------------------------
(* Properties of accumulation *)

\* C19: every cell of the count matrix is a non-negative integer in every
\* reachable state, and no add call makes any cell smaller.
C19_CountsNeverDecrease ==
    /\ [](\A t \in Classes : \A p \in Classes : conf[t][p] \in Nat)
    /\ [][op' = "add" =>
            \A t \in Classes : \A p \in Classes : conf'[t][p] >= conf[t][p]]_vars

\* C20: a value() between two adds does not change what a later value()
\* returns: the metric, queried at any time, returns at each value() what a
\* metric of the same configuration returns that was fed the same batches
\* in the same order and never queried before.
C20_QueryKeepsLaterValues ==
    [][op' = "dice" =>
          LET other == DiceOf(DiceMatrix(shard[1], normalized, ignore_indices))
          IN  /\ raised' = "none"
              /\ dice' = other
              /\ mdice' = MeanDice(other, ignore_indices)]_vars

\* an add has returned on a metric whose stored counts an earlier value()
\* had changed: its matrix holds counts and is not the matrix of the metric
\* that was never queried
C20_Witness ==
    /\ op = "add"
    /\ ~ignore_indices.is_none
    /\ conf # Zeros
    /\ conf # shard[1]
    /\ seen.total >= 2

----------------------------------------------------------------------------
(* Properties of repeated queries *)

\* C21: two value() calls in a row, no add or reset between them, return the
\* same mean Dice and the same per-class Dice values, whatever normalized
\* and ignore_indices are.
C21_ValueTwiceIsSame ==
    [][(op = "dice" /\ raised = "none" /\ op' = "dice") =>
          /\ raised' = "none"
          /\ dice' = dice
          /\ mdice' = mdice]_vars

\* value() has returned Dice values after changing the stored counts of an
\* ignored class: the value() that follows reads another matrix
C21_Witness ==
    /\ op = "dice"
    /\ ~normalized
    /\ ~ignore_indices.is_none
    /\ SumAll(conf) < seen.binned
    /\ conf # Zeros
    /\ mdice # NaN

----------------------------------------------------------------------------
(* Properties of the range of the labels *)

\* C22: add counts no pair whose predicted label is outside
\* [0, num_classes), the label num_classes itself included: a call whose
\* predicted labels are all outside leaves every cell as it was.
C22_OutsidePredictionsNotCounted ==
    [][(/\ op' = "add"
        /\ \A k \in DOMAIN pred' : pred'[k] < 0 \/ pred'[k] >= NumClasses) =>
          conf' = conf]_vars

----------------------------------------------------------------------------
(* Properties of the normalized flag *)

\* every row of c that holds a count has the same sum
EqualRowSums(c) ==
    \A t \in Classes : \A u \in Classes :
        (RowSums(c)[t] > 0 /\ RowSums(c)[u] > 0) => RowSums(c)[t] = RowSums(c)[u]

----------------------------------------------------------------------------
(* Properties of the int32 storage *)

\* C24: a cell's stored count is the true number of pairs added to it,
\* whatever the total is, totals above 2^31 - 1 included: an add call whose
\* labels are all in range raises every cell by exactly the number of its
\* pairs (target t, prediction p), and the int32 storage never wraps.
C24_StoredCountIsTrueCount ==
    [][(/\ op' = "add"
        /\ \A k \in DOMAIN pred' : pred'[k] \in Classes /\ target'[k] \in Classes) =>
          \A t \in Classes : \A p \in Classes :
              /\ conf'[t][p] >= conf[t][p]
              /\ conf'[t][p] - conf[t][p] =
                    Cardinality({k \in DOMAIN pred' : target'[k] = t /\ pred'[k] = p})]_vars

----------------------------------------------------------------------------
(* Properties of the range of ignore_indices *)

\* C25: every ignore index a constructed DiceCoefficient holds lies in
\* [0, num_classes), so value() never fails with an IndexError on an
\* out-of-range ignore index.
C25_IgnoreIndicesInRange ==
    /\ ignore_indices.is_none \/ ignore_indices.items \subseteq Classes
    /\ (op = "dice" /\ ignore_indices.others = {}) => raised # "IndexError"

----------------------------------------------------------------------------
(* Properties of the range of the Dice values *)

\* a Dice value that is nan or lies in [0, 1]
NanOrUnit(x) == x = NaN \/ (x[2] > 0 /\ 0 <= x[1] /\ x[1] <= x[2])

\* C26: in every reachable state of a metric with normalized False, each
\* per-class Dice value() returned is nan or lies in [0, 1], and the mean
\* Dice is nan or lies in [0, 1].
C26_DiceInUnitInterval ==
    (op = "dice" /\ raised = "none" /\ ~normalized) =>
        /\ \A c \in Classes : NanOrUnit(dice[c])
        /\ NanOrUnit(mdice)

----------------------------------------------------------------------------
(* Properties of the ModelProfiler *)

\* the flops of one inference on input x: every Conv2d / Linear module whose
\* forward returned counted once
FlopsOfOne(x) == RunModel(1, x, [m \in Modules |-> HandlesOn(NewHandles, m)], 0).flops

\* C27: get_flops reports the floating operations of one inference: after
\* any number of forward calls the counter is the sum, over the Conv2d and
\* Linear invocations of the last call, of weight.size()[1:].numel() *
\* output.size()[1:].numel(), a forward call on the input of the forward
\* call before it leaves the counter as it was, and get_flops returns the
\* counter divided by the unit.
C27_FlopsOfOneInference ==
    /\ [](op = "forward" => flops = FlopsOfOne(args))
    /\ []((op = "get_flops" /\ raised = "none") =>
              ret.value = Rat(flops, units[ret.units]))
    /\ [][(op = "forward" /\ op' = "forward" /\ args' = args) =>
              flops' = flops]_vars

\* C28: whenever no forward call is in progress, after construction and
\* after every forward call, returned or raised, profiler.hooks is None and
\* no hook of the profiler is registered on any module of the model.
C28_NoHookOutsideForward ==
    /\ hooks.is_none
    /\ \A m \in Modules : forward_hooks[m] = 0

----------------------------------------------------------------------------
(* Properties of the checkpoint look-up *)

\* C29: get_latest_run_version_ckpt_epoch_no returns normally on both
\* branches: when the checkpoints directory of the selected version holds a
\* file ending in .ckpt the path of such a file is returned, and when it
\* holds none 'CKPT file is not present' is printed and the call returns
\* without raising.
C29_ReturnsOnBothBranches ==
    LET run_version == RunVersion(args, lightning_logs)
    IN  (op = "get_ckpt" /\ run_version \in DOMAIN lightning_logs) =>
            /\ raised = "none"
            /\ IF CkptAt(lightning_logs[run_version]) # {}
               THEN /\ ret.version = run_version
                    /\ \E k \in CkptAt(lightning_logs[run_version]) :
                          ret.file = lightning_logs[run_version][k]
               ELSE stdout = <<"CKPT file is not present">>

=============================================================================
